---- MODULE Spec2Model ----
(***************************************************************************)
(* A state-machine model of ZStack (src/stp_zmq/zstack.py): the remote     *)
(* table and its by-key index, the listener and the per-remote sockets,    *)
(* the receive queue, and the operations addRemote, removeRemote, connect, *)
(* reconnectRemote, disconnectByName, start, stop and service.             *)
(*                                                                         *)
(* Byte strings and texts are sequences of numbers (bytes, code points).   *)
(* An optional value is <<>> (None) or <<x>>.                              *)
(***************************************************************************)
EXTENDS Naturals, Integers, Sequences, FiniteSets, TLC

\* ------------------------------------------------------------------------
\* Bounds of the model
\* ------------------------------------------------------------------------
\* frames that may be waiting in the sockets and the queue together
MaxFrames == 2
\* largest integer limit passed to service
MaxLimit == 1
\* frames of a burst that wait in the sockets and in the queue together
MaxBurst == 3
\* the clock stops at MaxTime
MaxTime == 5
\* ticks of each stack that are counted after a connect
MaxTicks == 2

\* ------------------------------------------------------------------------
\* Values
\* ------------------------------------------------------------------------
None == <<>>
Some(x) == <<x>>

Names == {"A", "B"}
Keys == {"k1", "k2"}
NoKey == "nokey"
\* the verify key of this stack, and one peer verify key
LocalVerKey == "vL"
VerKeys == {"v1", LocalVerKey}

\* Remote objects live in a heap. addRemote(name, ..., key) overwrites
\* remotes[name] and remotesByKeys[key], the only places that can refer to an
\* earlier Remote with this name and this key, so at most one such object is
\* in use at a time and <<name, key>> identifies it. NoObj is "no object".
NoObj == <<>>
ObjIds == Names \X Keys

\* configuration (self.config)
listenerQuota == 2
senderQuota == 1
MSG_LEN_LIMIT == 7

pingMessage == <<112, 105>>
pongMessage == <<112, 111>>
healthMessages == {pingMessage, pongMessage}
maxsize == 2147483647

\* ------------------------------------------------------------------------
\* Frames that peers put on the wire
\* ------------------------------------------------------------------------
EmptyFrame == <<>>
\* {}
EmptyObjFrame == <<123, 125>>
\* {"a":1}
AppFrame == <<123, 34, 97, 34, 58, 49, 125>>
\* {"a":2}
AltFrame == <<123, 34, 97, 34, 58, 50, 125>>
\* {"a":1} followed by blanks up to one byte more than the limit
OversizeFrame == AppFrame \o [i \in 1..(MSG_LEN_LIMIT + 1 - Len(AppFrame)) |-> 32]
\* a lone 0xFF byte is never valid UTF-8
BadUtf8Frame == <<255>>
\* {   (text, but not JSON)
BadJsonFrame == <<123>>

\* the frames peers send in Spec
Frames == {pingMessage, pongMessage, AppFrame, OversizeFrame, BadUtf8Frame}

\* ------------------------------------------------------------------------
\* Pure functions
\* ------------------------------------------------------------------------
Drop(s, n) == SubSeq(s, n + 1, Len(s))
Min(a, b) == IF a <= b THEN a ELSE b

\* bytes.decode(): UTF-8, strict; one- and two-byte forms
RECURSIVE Utf8Valid(_)
Utf8Valid(b) ==
    IF b = <<>> THEN TRUE
    ELSE IF b[1] < 128 THEN Utf8Valid(Drop(b, 1))
    ELSE IF b[1] >= 194 /\ b[1] <= 223 /\ Len(b) >= 2
            /\ b[2] >= 128 /\ b[2] <= 191
         THEN Utf8Valid(Drop(b, 2))
    ELSE FALSE

RECURSIVE Utf8Decode(_)
Utf8Decode(b) ==
    IF b = <<>> THEN <<>>
    ELSE IF b[1] < 128 THEN <<b[1]>> \o Utf8Decode(Drop(b, 1))
    ELSE <<(b[1] - 192) * 64 + (b[2] - 128)>> \o Utf8Decode(Drop(b, 2))

\* str.encode()
RECURSIVE Utf8Encode(_)
Utf8Encode(t) ==
    IF t = <<>> THEN <<>>
    ELSE IF t[1] < 128 THEN <<t[1]>> \o Utf8Encode(Drop(t, 1))
    ELSE <<192 + (t[1] \div 64), 128 + (t[1] % 64)>> \o Utf8Encode(Drop(t, 1))

\* MessageLenValidator.validate: TRUE when no exception is raised
LenValid(b) == Len(b) <= MSG_LEN_LIMIT

RECURSIVE Strip(_)
Strip(t) ==
    IF t = <<>> THEN t
    ELSE IF t[1] = 32 THEN Strip(Drop(t, 1))
    ELSE IF t[Len(t)] = 32 THEN Strip(SubSeq(t, 1, Len(t) - 1))
    ELSE t

\* json.loads on a text: a JSON object is the set of its <<key, value>> pairs
JsonOk(t) == Strip(t) \in {EmptyObjFrame, AppFrame, AltFrame}
JsonLoads(t) == IF Strip(t) = AppFrame THEN {<<"a", 1>>}
                ELSE IF Strip(t) = AltFrame THEN {<<"a", 2>>}
                ELSE {}

\* deserializeMsg
deserializeMsg(msg) == [ok |-> JsonOk(msg), val |-> JsonLoads(msg)]

\* truth value of a decoded object (if msg:)
Truthy(obj) == obj /= {}

\* doProcessReceived
doProcessReceived(msg, frm, ident) == msg

\* ------------------------------------------------------------------------
\* State
\* ------------------------------------------------------------------------
VARIABLES
    remotes,              \* name -> object id, NoObj when absent
    remotesByKeys,        \* encryption public key -> object id
    heap,                 \* object id -> Remote
    verifiers,            \* the keys of self.verifiers
    listener,             \* TRUE when self.listener is a socket
    listenerBuf,          \* frames waiting in the listener socket
    auth,                 \* None, or <<[allow_any, running]>>
    ctx,                  \* TRUE when self.ctx is set
    restricted,           \* self.restricted
    onlyListener,         \* self.onlyListener
    peersWithoutRemotes,
    rxMsgs,
    last_heartbeat_at,    \* None or <<time>>
    now,                  \* time.perf_counter()
    enableHeartbeats,     \* config.ENABLE_HEARTBEATS
    last,                 \* what the latest operation did and returned
    peer                  \* the stack at the other end of the wire, if any

vars == <<remotes, remotesByKeys, heap, verifiers, listener, listenerBuf, auth,
          ctx, restricted, onlyListener, peersWithoutRemotes, rxMsgs,
          last_heartbeat_at, now, enableHeartbeats, last, peer>>

\* a heap cell that holds no object
Free == [name |-> "-", publicKey |-> NoKey, verKey |-> NoKey,
         socket |-> FALSE, isConnected |-> FALSE, inbox |-> <<>>]

\* Remote(name, ha, verKey, publicKey)
Remote(name, verKey, publicKey) ==
    [name |-> name, publicKey |-> publicKey, verKey |-> verKey,
     socket |-> FALSE, isConnected |-> FALSE, inbox |-> <<>>]

Referenced(rem, byk) ==
    ({rem[n] : n \in Names} \cup {byk[k] : k \in Keys}) \ {NoObj}

\* objects nothing refers to any more are dropped from the heap
Collect(h, rem, byk) ==
    [i \in ObjIds |-> IF i \in Referenced(rem, byk) THEN h[i] ELSE Free]

\* the observable effects of one operation
Quiet(op) == [op |-> op, arg |-> None, ret |-> None, wire |-> <<>>, handled |-> <<>>,
              rejected |-> <<>>, drained |-> <<>>, popped |-> <<>>,
              jsonErrors |-> <<>>]

\* ------------------------------------------------------------------------
\* Send path
\* ------------------------------------------------------------------------
\* messages handed to send: a mapping, a str or bytes
Map(obj) == [t |-> "map", v |-> obj]
Str(text) == [t |-> "str", v |-> text]
Bytes(b) == [t |-> "bytes", v |-> b]

\* json.dumps (ujson: compact)
JsonDumps(obj) == IF obj = {} THEN EmptyObjFrame
                  ELSE IF obj = {<<"a", 2>>} THEN AltFrame
                  ELSE AppFrame

serializeMsg(msg) ==
    IF msg.t = "map" THEN Utf8Encode(JsonDumps(msg.v))
    ELSE IF msg.t = "str" THEN Utf8Encode(msg.v)
    ELSE msg.v

\* a prepare_to_send that never raises
prepare_to_sendUnchecked(msg) ==
    [bytes |-> serializeMsg(msg), ok |-> TRUE]

\* prepare_to_send: the bytes, and whether validate raised
prepare_to_send(msg) ==
    [bytes |-> serializeMsg(msg), ok |-> LenValid(serializeMsg(msg))]

Sent(via, to, b) == [via |-> via, to |-> to, msg |-> b]
Result(ok, err, wire) == [ok |-> ok, err |-> err, wire |-> wire]

\* a transmit that refuses to send to a remote that is not connected
transmitNeedsConnected(msg, uid, serialized, rem, h, busy) ==
    LET remote == IF uid \in Names THEN rem[uid] ELSE NoObj
        p == IF serialized THEN [bytes |-> msg, ok |-> TRUE]
             ELSE prepare_to_send(msg)
    IN  IF remote = NoObj THEN Result(FALSE, None, <<>>)
        ELSE IF ~h[remote].socket \/ ~h[remote].isConnected
        THEN Result(FALSE, None, <<>>)
        ELSE IF ~p.ok THEN Result(FALSE, Some("Cannot transmit message"), <<>>)
        ELSE IF h[remote].publicKey \in busy THEN Result(FALSE, None, <<>>)
        ELSE Result(TRUE, None,
                    <<Sent("remote", h[remote].publicKey, p.bytes)>>)

\* transmit(msg, uid, serialized) over the remote table rem and the heap h;
\* busy: the peers whose socket answers EAGAIN
transmit(msg, uid, serialized, rem, h, busy) ==
    LET remote == IF uid \in Names THEN rem[uid] ELSE NoObj
        p == IF serialized THEN [bytes |-> msg, ok |-> TRUE]
             ELSE prepare_to_send(msg)
    IN  IF remote = NoObj THEN Result(FALSE, None, <<>>)
        ELSE IF ~h[remote].socket THEN Result(FALSE, None, <<>>)
        ELSE IF ~p.ok THEN Result(FALSE, Some("Cannot transmit message"), <<>>)
        ELSE IF h[remote].publicKey \in busy THEN Result(FALSE, None, <<>>)
        ELSE Result(TRUE, None,
                    <<Sent("remote", h[remote].publicKey, p.bytes)>>)

\* a transmitThroughListener that sends to any identity
transmitThroughListenerToAnyone(msg, ident, peers, busy) ==
    LET p == prepare_to_send(msg)
    IN  IF ~p.ok THEN Result(FALSE, Some("Cannot transmit message"), <<>>)
        ELSE IF ~listener THEN Result(FALSE, Some("got error"), <<>>)
        ELSE IF ident \in busy THEN Result(FALSE, None, <<>>)
        ELSE Result(TRUE, None, <<Sent("listener", ident, p.bytes)>>)

\* transmitThroughListener(msg, ident); a str ident is encoded to bytes, and
\* the bytes of a remote name are no peer identity
transmitThroughListener(msg, ident, peers, busy) ==
    LET p == prepare_to_send(msg)
    IN  IF ident \notin peers THEN Result(FALSE, None, <<>>)
        ELSE IF ~p.ok THEN Result(FALSE, Some("Cannot transmit message"), <<>>)
        ELSE IF ~listener THEN Result(FALSE, Some("got error"), <<>>)
        ELSE IF ident \in busy THEN Result(FALSE, None, <<>>)
        ELSE Result(TRUE, None, <<Sent("listener", ident, p.bytes)>>)

\* a broadcast loop that ends at the first transmit that fails
RECURSIVE BroadcastStopsAtFailure(_, _, _, _, _)
BroadcastStopsAtFailure(b, uids, rem, h, busy) ==
    IF uids = <<>> THEN [r |-> <<>>, e |-> <<>>, wire |-> <<>>]
    ELSE LET one == transmit(b, Head(uids), TRUE, rem, h, busy)
             rest == IF one.ok THEN BroadcastStopsAtFailure(b, Tail(uids), rem, h, busy)
                     ELSE [r |-> <<>>, e |-> <<>>, wire |-> <<>>]
         IN  [r |-> <<one.ok>> \o rest.r,
              e |-> (IF one.err = None THEN <<>> ELSE one.err) \o rest.e,
              wire |-> one.wire \o rest.wire]

\* the broadcast loop of send over the remotes in the order uids
RECURSIVE Broadcast(_, _, _, _, _)
Broadcast(b, uids, rem, h, busy) ==
    IF uids = <<>> THEN [r |-> <<>>, e |-> <<>>, wire |-> <<>>]
    ELSE LET one == transmit(b, Head(uids), TRUE, rem, h, busy)
             rest == Broadcast(b, Tail(uids), rem, h, busy)
         IN  [r |-> <<one.ok>> \o rest.r,
              e |-> (IF one.err = None THEN <<>> ELSE one.err) \o rest.e,
              wire |-> one.wire \o rest.wire]

\* the orders in which a dict with the keys S may be iterated
Orders(S) ==
    {o \in [1..Cardinality(S) -> S] : \A x \in S : \E i \in DOMAIN o : o[i] = x}

\* send(msg, remoteName): remoteName is None, or <<a name or an identity>>
send(msg, remoteName, rem, h, peers, order, busy) ==
    IF onlyListener
    THEN transmitThroughListener(msg,
             IF remoteName = None THEN NoKey ELSE remoteName[1], peers, busy)
    ELSE IF remoteName = None
    THEN LET p == prepare_to_send(msg)
             all == Broadcast(p.bytes, order, rem, h, busy)
         IN  IF ~p.ok THEN Result(FALSE, Some("Cannot send message"), <<>>)
             ELSE Result(\A i \in DOMAIN all.r : all.r[i],
                         IF all.e = <<>> THEN None ELSE Some(all.e), all.wire)
    ELSE transmit(msg, remoteName[1], FALSE, rem, h, busy)

\* sendPingPong(remote, is_ping): the result of send, r[0] is returned
sendPingPong(name, is_ping, rem, h, peers, busy) ==
    send(Str(IF is_ping THEN pingMessage ELSE pongMessage), Some(name),
         rem, h, peers, <<>>, busy)

\* a send_heartbeats that gives up at the first ping that is not sent
RECURSIVE send_heartbeatsStopsAtFailure(_, _, _, _, _)
send_heartbeatsStopsAtFailure(uids, rem, h, peers, busy) ==
    IF uids = <<>> THEN <<>>
    ELSE IF ~sendPingPong(Head(uids), TRUE, rem, h, peers, busy).ok THEN <<>>
    ELSE sendPingPong(Head(uids), TRUE, rem, h, peers, busy).wire
         \o send_heartbeatsStopsAtFailure(Tail(uids), rem, h, peers, busy)

\* send_heartbeats: one ping per name in self.remotes
RECURSIVE send_heartbeats(_, _, _, _, _)
send_heartbeats(uids, rem, h, peers, busy) ==
    IF uids = <<>> THEN <<>>
    ELSE sendPingPong(Head(uids), TRUE, rem, h, peers, busy).wire
         \o send_heartbeats(Tail(uids), rem, h, peers, busy)

\* ------------------------------------------------------------------------
\* Receive pipeline
\* ------------------------------------------------------------------------
\* the source name of an identity: the remote's name, else the raw identity
SourceName(ident, h) ==
    IF remotesByKeys[ident] /= NoObj THEN h[remotesByKeys[ident]].name ELSE ident

\* a _verifyAndAppend that does not validate the length
verifyAndAppendNoLenCheck(msg, ident, d) ==
    IF Utf8Valid(msg)
    THEN [d EXCEPT !.rx = Append(@, [msg |-> Utf8Decode(msg), ident |-> ident])]
    ELSE [d EXCEPT !.rejected = Append(@,
            [reason |-> "UnicodeDecodeError",
             frm |-> SourceName(ident, heap), msg |-> msg])]

\* a _verifyAndAppend that reports every rejection under the raw identity
verifyAndAppendRawFrm(msg, ident, d) ==
    IF LenValid(msg) /\ Utf8Valid(msg)
    THEN [d EXCEPT !.rx = Append(@, [msg |-> Utf8Decode(msg), ident |-> ident])]
    ELSE [d EXCEPT !.rejected = Append(@,
            [reason |-> IF LenValid(msg) THEN "UnicodeDecodeError"
                        ELSE "InvalidMessageExceedingSizeException",
             frm |-> ident, msg |-> msg])]

\* a _verifyAndAppend that puts the frame at the head of the queue
verifyAndAppendLeft(msg, ident, d) ==
    IF LenValid(msg) /\ Utf8Valid(msg)
    THEN [d EXCEPT !.rx = <<[msg |-> Utf8Decode(msg), ident |-> ident]>> \o @]
    ELSE [d EXCEPT !.rejected = Append(@,
            [reason |-> IF LenValid(msg) THEN "UnicodeDecodeError"
                        ELSE "InvalidMessageExceedingSizeException",
             frm |-> SourceName(ident, heap), msg |-> msg])]

\* _verifyAndAppend(msg, ident) on d = [rx, peers, rejected, drained]
verifyAndAppend(msg, ident, d) ==
    IF LenValid(msg) /\ Utf8Valid(msg)
    THEN [d EXCEPT !.rx = Append(@, [msg |-> Utf8Decode(msg), ident |-> ident])]
    ELSE [d EXCEPT !.rejected = Append(@,
            [reason |-> IF LenValid(msg) THEN "UnicodeDecodeError"
                        ELSE "InvalidMessageExceedingSizeException",
             frm |-> SourceName(ident, heap), msg |-> msg])]

\* a _receiveFromListener that never records a peer without remote
RECURSIVE receiveFromListenerForgetsPeers(_, _, _)
receiveFromListenerForgetsPeers(buf, i, d) ==
    IF i >= listenerQuota \/ buf = <<>> THEN [buf |-> buf, d |-> d]
    ELSE IF Head(buf).msg = <<>> THEN receiveFromListenerForgetsPeers(Tail(buf), i, d)
    ELSE LET ident == Head(buf).ident
             d1 == [d EXCEPT
                      !.drained = Append(@, [via |-> "listener", ident |-> ident,
                                             msg |-> Head(buf).msg])]
         IN  receiveFromListenerForgetsPeers(Tail(buf), i + 1,
                                 verifyAndAppend(Head(buf).msg, ident, d1))

\* a _receiveFromListener that counts the empty frames against the quota
RECURSIVE receiveFromListenerCountsEmpty(_, _, _)
receiveFromListenerCountsEmpty(buf, i, d) ==
    IF i >= listenerQuota \/ buf = <<>> THEN [buf |-> buf, d |-> d]
    ELSE IF Head(buf).msg = <<>> THEN receiveFromListenerCountsEmpty(Tail(buf), i + 1, d)
    ELSE LET ident == Head(buf).ident
             d1 == [d EXCEPT
                      !.peers = IF onlyListener /\ remotesByKeys[ident] = NoObj
                                THEN @ \cup {ident} ELSE @,
                      !.drained = Append(@, [via |-> "listener", ident |-> ident,
                                             msg |-> Head(buf).msg])]
         IN  receiveFromListenerCountsEmpty(Tail(buf), i + 1,
                                 verifyAndAppend(Head(buf).msg, ident, d1))

\* a _receiveFromListener that records the peer of a valid frame only
RECURSIVE receiveFromListenerValidatesFirst(_, _, _)
receiveFromListenerValidatesFirst(buf, i, d) ==
    IF i >= listenerQuota \/ buf = <<>> THEN [buf |-> buf, d |-> d]
    ELSE IF Head(buf).msg = <<>> THEN receiveFromListenerValidatesFirst(Tail(buf), i, d)
    ELSE LET ident == Head(buf).ident
             d1 == [d EXCEPT
                      !.peers = IF /\ onlyListener /\ remotesByKeys[ident] = NoObj
                                   /\ LenValid(Head(buf).msg)
                                   /\ Utf8Valid(Head(buf).msg)
                                THEN @ \cup {ident} ELSE @,
                      !.drained = Append(@, [via |-> "listener", ident |-> ident,
                                             msg |-> Head(buf).msg])]
         IN  receiveFromListenerValidatesFirst(Tail(buf), i + 1,
                                 verifyAndAppend(Head(buf).msg, ident, d1))

\* _receiveFromListener(quota): the loop from the i-th received message on
RECURSIVE receiveFromListener(_, _, _)
receiveFromListener(buf, i, d) ==
    IF i >= listenerQuota \/ buf = <<>> THEN [buf |-> buf, d |-> d]
    ELSE IF Head(buf).msg = <<>> THEN receiveFromListener(Tail(buf), i, d)
    ELSE LET ident == Head(buf).ident
             d1 == [d EXCEPT
                      !.peers = IF onlyListener /\ remotesByKeys[ident] = NoObj
                                THEN @ \cup {ident} ELSE @,
                      !.drained = Append(@, [via |-> "listener", ident |-> ident,
                                             msg |-> Head(buf).msg])]
         IN  receiveFromListener(Tail(buf), i + 1,
                                 verifyAndAppend(Head(buf).msg, ident, d1))

\* a drain of one socket that does not get past an empty frame
RECURSIVE receiveFromSocketStopsAtEmpty(_, _, _, _)
receiveFromSocketStopsAtEmpty(buf, ident, i, d) ==
    IF i >= senderQuota \/ buf = <<>> THEN [buf |-> buf, d |-> d]
    ELSE IF Head(buf) = <<>> THEN [buf |-> buf, d |-> d]
    ELSE receiveFromSocketStopsAtEmpty(Tail(buf), ident, i + 1,
            verifyAndAppend(Head(buf), ident,
                [d EXCEPT !.drained = Append(@, [via |-> "remote", ident |-> ident,
                                                 msg |-> Head(buf)])]))

\* the loop of _receiveFromRemotes over one socket
RECURSIVE receiveFromSocket(_, _, _, _)
receiveFromSocket(buf, ident, i, d) ==
    IF i >= senderQuota \/ buf = <<>> THEN [buf |-> buf, d |-> d]
    ELSE IF Head(buf) = <<>> THEN receiveFromSocket(Tail(buf), ident, i, d)
    ELSE receiveFromSocket(Tail(buf), ident, i + 1,
            verifyAndAppend(Head(buf), ident,
                [d EXCEPT !.drained = Append(@, [via |-> "remote", ident |-> ident,
                                                 msg |-> Head(buf)])]))

\* _receiveFromRemotes(quotaPerRemote) over remotesByKeys.items() in the order idents
RECURSIVE receiveFromRemotes(_, _, _)
receiveFromRemotes(idents, h, d) ==
    IF idents = <<>> THEN [h |-> h, d |-> d]
    ELSE LET ident == Head(idents)
             remote == remotesByKeys[ident]
             got == receiveFromSocket(h[remote].inbox, ident, 0, d)
         IN  IF ~h[remote].socket THEN receiveFromRemotes(Tail(idents), h, d)
             ELSE receiveFromRemotes(Tail(idents),
                      [h EXCEPT ![remote].inbox = got.buf], got.d)

\* a handlePingPong that marks the remote connected on a ping as well
handlePingPongPingConnects(msg, frm, ident, p, peers, busy) ==
    IF msg \in {pingMessage, pongMessage}
    THEN [r |-> TRUE,
          p |-> IF remotesByKeys[ident] /= NoObj
                THEN [p EXCEPT !.h[remotesByKeys[ident]].isConnected = TRUE]
                ELSE p]
    ELSE [r |-> FALSE, p |-> p]

\* a handlePingPong that returns False after handling a health message
handlePingPongFallsThrough(msg, frm, ident, p, peers, busy) ==
    IF msg = pingMessage
    THEN [r |-> FALSE,
          p |-> [p EXCEPT !.wire = @ \o sendPingPong(frm, FALSE, remotes, p.h,
                                                     peers, busy).wire]]
    ELSE IF msg = pongMessage
    THEN [r |-> FALSE,
          p |-> IF remotesByKeys[ident] /= NoObj
                THEN [p EXCEPT !.h[remotesByKeys[ident]].isConnected = TRUE]
                ELSE p]
    ELSE [r |-> FALSE, p |-> p]

\* handlePingPong(msg, frm, ident) on p = [rx, h, wire, handled, popped, jsonErrors]
handlePingPong(msg, frm, ident, p, peers, busy) ==
    IF msg = pingMessage
    THEN [r |-> TRUE,
          p |-> [p EXCEPT !.wire = @ \o sendPingPong(frm, FALSE, remotes, p.h,
                                                     peers, busy).wire]]
    ELSE IF msg = pongMessage
    THEN [r |-> TRUE,
          p |-> IF remotesByKeys[ident] /= NoObj
                THEN [p EXCEPT !.h[remotesByKeys[ident]].isConnected = TRUE]
                ELSE p]
    ELSE [r |-> FALSE, p |-> p]

\* a processing step that hands an undecodable frame to the handler
processOneForwardsUndecoded(e, p, peers, busy) ==
    LET frm == SourceName(e.ident, p.h)
        pp == handlePingPong(e.msg, frm, e.ident, p, peers, busy)
        js == deserializeMsg(e.msg)
        msg == doProcessReceived(js.val, frm, e.ident)
    IN  IF pp.r THEN pp.p
        ELSE IF ~js.ok
        THEN [pp.p EXCEPT !.jsonErrors = Append(@, e),
                          !.handled = Append(@, [msg |-> {}, frm |-> frm])]
        ELSE IF Truthy(msg)
        THEN [pp.p EXCEPT !.handled = Append(@, [msg |-> msg, frm |-> frm])]
        ELSE pp.p

\* the body of the loop of processReceived for the popped entry e
processOne(e, p, peers, busy) ==
    LET frm == SourceName(e.ident, p.h)
        pp == handlePingPong(e.msg, frm, e.ident, p, peers, busy)
        js == deserializeMsg(e.msg)
        msg == doProcessReceived(js.val, frm, e.ident)
    IN  IF pp.r THEN pp.p
        ELSE IF ~js.ok
        THEN [pp.p EXCEPT !.jsonErrors = Append(@, e)]
        ELSE IF Truthy(msg)
        THEN [pp.p EXCEPT !.handled = Append(@, [msg |-> msg, frm |-> frm])]
        ELSE pp.p

\* processReceived(limit): the loop for x in range(limit), from x on
RECURSIVE processLoop(_, _, _, _, _)
processLoop(x, limit, p, peers, busy) ==
    IF x >= limit THEN [ret |-> x, p |-> p]
    ELSE IF p.rx = <<>> THEN [ret |-> x + 1, p |-> p]
    ELSE processLoop(x + 1, limit,
             processOne(Head(p.rx),
                        [p EXCEPT !.rx = Tail(@), !.popped = Append(@, Head(p.rx))],
                        peers, busy),
             peers, busy)

processReceived(limit, p, peers, busy) ==
    IF limit <= 0 THEN [ret |-> 0, p |-> p]
    ELSE processLoop(0, limit, p, peers, busy)

\* ------------------------------------------------------------------------
\* Key files on disk (not changed by any operation modelled here)
\* ------------------------------------------------------------------------
\* public_keys/<name>.key and verif_keys/<name>.key: A's keys are on disk
publicKeysDir == [n \in Names |-> IF n = "A" THEN "k1" ELSE NoKey]
verifKeyDir == [n \in Names |-> IF n = "A" THEN "v1" ELSE NoKey]

\* getAllVerKeys: the local verify key and the peers' verify keys on disk
getAllVerKeys == {LocalVerKey} \cup ({verifKeyDir[n] : n \in Names} \ {NoKey})

isRestricted == IF auth /= None THEN ~auth[1].allow_any ELSE restricted

\* ------------------------------------------------------------------------
\* Initial state: __init__
\* ------------------------------------------------------------------------
NoRemotes == [n \in Names |-> NoObj]
NoRemotesByKeys == [k \in Keys |-> NoObj]
EmptyHeap == [i \in ObjIds |-> Free]

\* a stack that runs alone
NoPeer == [me |-> "A", st |-> <<>>, ticks |-> [n \in Names |-> 0]]

InitCommon ==
    /\ remotes = NoRemotes
    /\ remotesByKeys = NoRemotesByKeys
    /\ heap = EmptyHeap
    /\ verifiers = getAllVerKeys
    /\ listener = FALSE
    /\ listenerBuf = <<>>
    /\ auth = None
    /\ ctx = FALSE
    /\ peersWithoutRemotes = {}
    /\ rxMsgs = <<>>
    /\ last_heartbeat_at = None
    /\ now = 0
    /\ last = Quiet("init")

Init ==
    /\ InitCommon
    /\ restricted = TRUE
    /\ onlyListener \in BOOLEAN
    /\ enableHeartbeats = FALSE
    /\ peer = NoPeer

\* what no operation of the stack changes: its configuration, and the stack
\* at the other end of the wire
Config == <<restricted, onlyListener, enableHeartbeats, peer>>

\* ------------------------------------------------------------------------
\* Remote management
\* ------------------------------------------------------------------------
\* addRemote(name, ha, remoteVerkey, remotePublicKey): the three tables after it
addRemote(name, remoteVerkey, remotePublicKey) ==
    LET remote == <<name, remotePublicKey>>
    IN  [remotes |-> [remotes EXCEPT ![name] = remote],
         remotesByKeys |-> [remotesByKeys EXCEPT ![remotePublicKey] = remote],
         heap |-> [heap EXCEPT ![remote] = Remote(name, remoteVerkey, remotePublicKey)],
         verifiers |-> IF remoteVerkey /= NoKey THEN verifiers \cup {remoteVerkey}
                       ELSE verifiers,
         remote |-> remote]

AddRemote(name, remoteVerkey, remotePublicKey) ==
    LET t == addRemote(name, remoteVerkey, remotePublicKey)
    IN  /\ remotes' = t.remotes
        /\ remotesByKeys' = t.remotesByKeys
        /\ heap' = Collect(t.heap, t.remotes, t.remotesByKeys)
        /\ verifiers' = t.verifiers
        /\ last' = Quiet("addRemote")
        /\ UNCHANGED <<listener, listenerBuf, auth, ctx, Config,
                       peersWithoutRemotes, rxMsgs, last_heartbeat_at, now>>

\* removeRemote(remote) for a Remote object the stack still refers to
RemoveRemote(remote) ==
    LET name == heap[remote].name
        pkey == heap[remote].publicKey
        vkey == heap[remote].verKey
        rem == [remotes EXCEPT ![name] = NoObj]
        byk == [remotesByKeys EXCEPT ![pkey] = NoObj]
    IN  /\ remote \in Referenced(remotes, remotesByKeys)
        /\ IF remotes[name] /= NoObj
           THEN /\ remotes' = rem
                /\ remotesByKeys' = byk
                /\ verifiers' = verifiers \ {vkey}
                /\ heap' = Collect(heap, rem, byk)
           ELSE UNCHANGED <<remotes, remotesByKeys, verifiers, heap>>
        /\ last' = Quiet("removeRemote")
        /\ UNCHANGED <<listener, listenerBuf, auth, ctx, Config,
                       peersWithoutRemotes, rxMsgs, last_heartbeat_at, now>>

\* removeRemoteByName(name): a listener-only stack forgets the peer of that
\* identity; any other stack removes the remote of that name, as the base
\* class does, which raises when there is none
RemoveRemoteByName(name) ==
    LET known == name \in Names /\ remotes[name] /= NoObj
        remote == remotes[name]
        rem == [remotes EXCEPT ![name] = NoObj]
        byk == [remotesByKeys EXCEPT ![heap[remote].publicKey] = NoObj]
    IN  /\ IF onlyListener
           THEN /\ peersWithoutRemotes' = peersWithoutRemotes \ {name}
                /\ last' = [Quiet("removeRemoteByName") EXCEPT
                               !.ret = IF name \in peersWithoutRemotes
                                       THEN Some(TRUE) ELSE None]
                /\ UNCHANGED <<remotes, remotesByKeys, verifiers, heap>>
           ELSE IF known
           THEN /\ remotes' = rem
                /\ remotesByKeys' = byk
                /\ verifiers' = verifiers \ {heap[remote].verKey}
                /\ heap' = Collect(heap, rem, byk)
                /\ last' = [Quiet("removeRemoteByName") EXCEPT !.ret = Some(name)]
                /\ UNCHANGED peersWithoutRemotes
           ELSE /\ last' = [Quiet("removeRemoteByName") EXCEPT
                               !.ret = Some("RemoteNotFound")]
                /\ UNCHANGED <<remotes, remotesByKeys, verifiers, heap,
                               peersWithoutRemotes>>
        /\ UNCHANGED <<listener, listenerBuf, auth, ctx, Config, rxMsgs,
                       last_heartbeat_at, now>>

\* Remote.connect: a new socket replaces whatever socket there was
RemoteConnect(r) == [r EXCEPT !.socket = TRUE, !.inbox = <<>>]
\* Remote.disconnect: the socket is closed and the liveness bit cleared
RemoteDisconnect(r) == [r EXCEPT !.socket = FALSE, !.inbox = <<>>,
                                 !.isConnected = FALSE]
\* Remote.setConnected
RemoteSetConnected(r) == [r EXCEPT !.isConnected = TRUE]

\* a connect that asks for the verify key in unrestricted mode as well
ConnectNeedsVerKey(name, ha, verKeyRaw, publicKeyRaw, busy) ==
    LET known == remotes[name] /= NoObj
        publicKey == IF publicKeyRaw /= None THEN publicKeyRaw[1]
                     ELSE publicKeysDir[name]
        verKey == IF verKeyRaw /= None THEN verKeyRaw[1] ELSE verifKeyDir[name]
        t == IF known
             THEN [remotes |-> remotes, remotesByKeys |-> remotesByKeys,
                   heap |-> heap, verifiers |-> verifiers, remote |-> remotes[name]]
             ELSE addRemote(name, verKey, publicKey)
        h == [t.heap EXCEPT ![t.remote] = RemoteConnect(@)]
        ping == sendPingPong(name, TRUE, t.remotes, h, peersWithoutRemotes, busy)
        raise(ex) == /\ last' = [Quiet("connect") EXCEPT !.ret = Some(ex)]
                     /\ UNCHANGED <<remotes, remotesByKeys, heap, verifiers>>
    IN  /\ IF ~known /\ publicKey = NoKey
           THEN raise("PublicKeyNotFoundOnDisk")
           ELSE IF ~known /\ verKey = NoKey /\ verKeyRaw = None
           THEN raise("VerKeyNotFoundOnDisk")
           ELSE IF ~known /\ (ha = None \/ verKey = NoKey)
           THEN raise("ValueError")
           ELSE /\ remotes' = t.remotes
                /\ remotesByKeys' = t.remotesByKeys
                /\ verifiers' = t.verifiers
                /\ IF ctx
                   THEN /\ heap' = Collect(h, t.remotes, t.remotesByKeys)
                        /\ last' = [Quiet("connect") EXCEPT
                                       !.ret = Some(name), !.wire = ping.wire]
                   ELSE /\ heap' = Collect(t.heap, t.remotes, t.remotesByKeys)
                        /\ last' = [Quiet("connect") EXCEPT
                                       !.ret = Some("AttributeError")]
        /\ UNCHANGED <<listener, listenerBuf, auth, ctx, Config,
                       peersWithoutRemotes, rxMsgs, last_heartbeat_at, now>>

\* connect(name, ha=ha, verKeyRaw, publicKeyRaw); ha, verKeyRaw and
\* publicKeyRaw are None or <<value>>
Connect(name, ha, verKeyRaw, publicKeyRaw, busy) ==
    LET known == remotes[name] /= NoObj
        publicKey == IF publicKeyRaw /= None THEN publicKeyRaw[1]
                     ELSE publicKeysDir[name]
        verKey == IF verKeyRaw /= None THEN verKeyRaw[1] ELSE verifKeyDir[name]
        t == IF known
             THEN [remotes |-> remotes, remotesByKeys |-> remotesByKeys,
                   heap |-> heap, verifiers |-> verifiers, remote |-> remotes[name]]
             ELSE addRemote(name, verKey, publicKey)
        h == [t.heap EXCEPT ![t.remote] = RemoteConnect(@)]
        ping == sendPingPong(name, TRUE, t.remotes, h, peersWithoutRemotes, busy)
        raise(ex) == /\ last' = [Quiet("connect") EXCEPT !.ret = Some(ex)]
                     /\ UNCHANGED <<remotes, remotesByKeys, heap, verifiers>>
    IN  /\ IF ~known /\ publicKey = NoKey
           THEN raise("PublicKeyNotFoundOnDisk")
           ELSE IF ~known /\ verKey = NoKey /\ verKeyRaw = None /\ isRestricted
           THEN raise("VerKeyNotFoundOnDisk")
           ELSE IF ~known /\ (ha = None \/ (isRestricted /\ verKey = NoKey))
           THEN raise("ValueError")
           ELSE /\ remotes' = t.remotes
                /\ remotesByKeys' = t.remotesByKeys
                /\ verifiers' = t.verifiers
                /\ IF ctx
                   THEN /\ heap' = Collect(h, t.remotes, t.remotesByKeys)
                        /\ last' = [Quiet("connect") EXCEPT
                                       !.ret = Some(name), !.wire = ping.wire]
                   ELSE /\ heap' = Collect(t.heap, t.remotes, t.remotesByKeys)
                        /\ last' = [Quiet("connect") EXCEPT
                                       !.ret = Some("AttributeError")]
        /\ UNCHANGED <<listener, listenerBuf, auth, ctx, Config,
                       peersWithoutRemotes, rxMsgs, last_heartbeat_at, now>>

\* reconnectRemote(remote) for a remote of self.remotes, on a started stack
ReconnectRemote(name, busy) ==
    LET remote == remotes[name]
        h == [heap EXCEPT ![remote] = RemoteConnect(RemoteDisconnect(@))]
    IN  /\ remote /= NoObj
        /\ ctx
        /\ heap' = h
        /\ last' = [Quiet("reconnectRemote") EXCEPT
                      !.wire = sendPingPong(name, TRUE, remotes, h,
                                            peersWithoutRemotes, busy).wire]
        /\ UNCHANGED <<remotes, remotesByKeys, verifiers, listener, listenerBuf,
                       auth, ctx, Config, peersWithoutRemotes, rxMsgs,
                       last_heartbeat_at, now>>

\* disconnectByName(name)
DisconnectByName(name) ==
    /\ IF remotes[name] = NoObj
       THEN /\ heap' = heap
            /\ last' = Quiet("disconnectByName")
       ELSE /\ heap' = [heap EXCEPT ![remotes[name]] = RemoteDisconnect(@)]
            /\ last' = [Quiet("disconnectByName") EXCEPT !.ret = Some(remotes[name])]
    /\ UNCHANGED <<remotes, remotesByKeys, verifiers, listener, listenerBuf,
                   auth, ctx, Config, peersWithoutRemotes, rxMsgs,
                   last_heartbeat_at, now>>

\* ------------------------------------------------------------------------
\* Lifecycle
\* ------------------------------------------------------------------------
\* setupAuth(restricted, force) when it does not raise
setupAuth(r) == Some([allow_any |-> ~r, running |-> TRUE])
\* teardownAuth
teardownAuth == IF auth /= None THEN Some([auth[1] EXCEPT !.running = FALSE])
                ELSE None

\* start(restricted, reSetupAuth) on a stack whose listener is not open;
\* restrictedArg is None or <<a boolean>>
Start(restrictedArg, reSetupAuth) ==
    LET r == IF restrictedArg = None THEN restricted ELSE restrictedArg[1]
    IN  /\ ~listener
        /\ ctx' = TRUE
        /\ IF auth /= None /\ ~reSetupAuth
           THEN /\ last' = [Quiet("start") EXCEPT !.ret = Some("RuntimeError")]
                /\ UNCHANGED <<auth, listener, listenerBuf>>
           ELSE /\ auth' = setupAuth(r)
                /\ listener' = TRUE
                /\ listenerBuf' = <<>>
                /\ last' = Quiet("start")
        /\ UNCHANGED <<remotes, remotesByKeys, heap, verifiers, Config,
                       peersWithoutRemotes, rxMsgs, last_heartbeat_at, now>>

\* a stop that throws the queued frames away
StopClearsQueue ==
    /\ IF listener
       THEN /\ listener' = FALSE
            /\ listenerBuf' = <<>>
            /\ remotes' = NoRemotes
            /\ remotesByKeys' = NoRemotesByKeys
            /\ heap' = EmptyHeap
       ELSE UNCHANGED <<listener, listenerBuf, remotes, remotesByKeys, heap>>
    /\ auth' = teardownAuth
    /\ last' = Quiet("stop")
    /\ rxMsgs' = <<>>
    /\ UNCHANGED <<verifiers, ctx, Config, peersWithoutRemotes,
                   last_heartbeat_at, now>>

\* stop(): close() when opened, then teardownAuth()
Stop ==
    /\ IF listener
       THEN /\ listener' = FALSE
            /\ listenerBuf' = <<>>
            /\ remotes' = NoRemotes
            /\ remotesByKeys' = NoRemotesByKeys
            /\ heap' = EmptyHeap
       ELSE UNCHANGED <<listener, listenerBuf, remotes, remotesByKeys, heap>>
    /\ auth' = teardownAuth
    /\ last' = Quiet("stop")
    /\ UNCHANGED <<verifiers, ctx, Config, peersWithoutRemotes, rxMsgs,
                   last_heartbeat_at, now>>

\* a setRestricted that starts again without stopping first
SetRestrictedWithoutStop(b) ==
    /\ IF isRestricted /= b
       THEN /\ ctx' = TRUE
            /\ auth' = setupAuth(b)
            /\ listener' = TRUE
            /\ listenerBuf' = <<>>
            /\ UNCHANGED <<remotes, remotesByKeys, heap>>
       ELSE UNCHANGED <<remotes, remotesByKeys, heap, ctx, auth, listener,
                        listenerBuf>>
    /\ last' = [Quiet("setRestricted") EXCEPT !.arg = Some(<<b, isRestricted>>)]
    /\ UNCHANGED <<verifiers, Config, peersWithoutRemotes, rxMsgs,
                   last_heartbeat_at, now>>

\* setRestricted(restricted): stop() and start(restricted, reSetupAuth=True)
\* when the mode changes; `last` keeps the argument and the mode it found
SetRestricted(b) ==
    /\ IF isRestricted /= b
       THEN /\ IF listener
               THEN /\ remotes' = NoRemotes
                    /\ remotesByKeys' = NoRemotesByKeys
                    /\ heap' = EmptyHeap
               ELSE UNCHANGED <<remotes, remotesByKeys, heap>>
            /\ ctx' = TRUE
            /\ auth' = setupAuth(b)
            /\ listener' = TRUE
            /\ listenerBuf' = <<>>
       ELSE UNCHANGED <<remotes, remotesByKeys, heap, ctx, auth, listener,
                        listenerBuf>>
    /\ last' = [Quiet("setRestricted") EXCEPT !.arg = Some(<<b, isRestricted>>)]
    /\ UNCHANGED <<verifiers, Config, peersWithoutRemotes, rxMsgs,
                   last_heartbeat_at, now>>

\* ------------------------------------------------------------------------
\* service
\* ------------------------------------------------------------------------
HEARTBEAT_FREQ == 2

HeartbeatDue ==
    enableHeartbeats /\ (last_heartbeat_at = None
                         \/ now - last_heartbeat_at[1] >= HEARTBEAT_FREQ)

RemoteNames == {n \in Names : remotes[n] /= NoObj}
RemoteIdents == {k \in Keys : remotesByKeys[k] /= NoObj}

\* service(limit): limit is None or <<an integer>>; names and idents are the
\* orders in which self.remotes and self.remotesByKeys are iterated
Service(limit, names, idents, busy) ==
    LET beats == IF listener /\ HeartbeatDue
                 THEN send_heartbeats(names, remotes, heap, peersWithoutRemotes, busy)
                 ELSE <<>>
        d0 == [rx |-> rxMsgs, peers |-> peersWithoutRemotes, rejected |-> <<>>,
               drained |-> <<>>]
        fromL == receiveFromListener(listenerBuf, 0, d0)
        fromR == receiveFromRemotes(idents, heap, fromL.d)
        \* _serviceStack runs only when the listener is open
        buf == IF listener THEN fromL.buf ELSE listenerBuf
        h == IF listener THEN fromR.h ELSE heap
        d == IF listener THEN fromR.d ELSE d0
        p0 == [rx |-> d.rx, h |-> h, wire |-> beats, handled |-> <<>>,
               popped |-> <<>>, jsonErrors |-> <<>>]
        pracLimit == IF limit /= None /\ limit[1] /= 0 THEN limit[1] ELSE maxsize
        done == IF Len(d.rx) > 0 THEN processReceived(pracLimit, p0, d.peers, busy)
                ELSE [ret |-> 0, p |-> p0]
    IN  /\ listenerBuf' = buf
        /\ peersWithoutRemotes' = d.peers
        /\ rxMsgs' = done.p.rx
        /\ heap' = done.p.h
        /\ last_heartbeat_at' = IF listener /\ HeartbeatDue THEN Some(now)
                                ELSE last_heartbeat_at
        /\ last' = [op |-> "service", arg |-> limit, ret |-> Some(done.ret),
                    wire |-> done.p.wire,
                    handled |-> done.p.handled, rejected |-> d.rejected,
                    drained |-> d.drained, popped |-> done.p.popped,
                    jsonErrors |-> done.p.jsonErrors]
        /\ UNCHANGED <<remotes, remotesByKeys, verifiers, listener, auth, ctx,
                       Config, now>>

\* send(msg, remoteName) called by the application; order is the order in
\* which self.remotes is iterated, busy the peers whose socket answers EAGAIN
Send(msg, remoteName, order, busy) ==
    LET res == send(msg, remoteName, remotes, heap, peersWithoutRemotes, order, busy)
    IN  /\ last' = [Quiet("send") EXCEPT !.arg = Some(<<msg, remoteName>>),
                                         !.ret = Some(<<res.ok, res.err>>),
                                         !.wire = res.wire]
        /\ UNCHANGED <<remotes, remotesByKeys, heap, verifiers, listener,
                       listenerBuf, auth, ctx, Config, peersWithoutRemotes, rxMsgs,
                       last_heartbeat_at, now>>

\* ------------------------------------------------------------------------
\* Environment: peers and the clock
\* ------------------------------------------------------------------------
RECURSIVE SumInbox(_, _)
SumInbox(h, ids) ==
    IF ids = {} THEN 0
    ELSE LET i == CHOOSE j \in ids : TRUE
         IN  Len(h[i].inbox) + SumInbox(h, ids \ {i})

InFlight == Len(listenerBuf) + SumInbox(heap, ObjIds) + Len(rxMsgs)

\* a peer's frame reaches the listener socket
ArriveAtListener(ident, msg) ==
    /\ listener
    /\ InFlight < MaxFrames
    /\ listenerBuf' = Append(listenerBuf, [ident |-> ident, msg |-> msg])
    /\ last' = Quiet("arrive")
    /\ UNCHANGED <<remotes, remotesByKeys, heap, verifiers, listener, auth, ctx,
                   Config, peersWithoutRemotes, rxMsgs, last_heartbeat_at, now>>

\* a peer's frame reaches the socket of a remote
ArriveAtRemote(remote, msg) ==
    /\ heap[remote].socket
    /\ InFlight < MaxFrames
    /\ heap' = [heap EXCEPT ![remote].inbox = Append(@, msg)]
    /\ last' = Quiet("arrive")
    /\ UNCHANGED <<remotes, remotesByKeys, verifiers, listener, listenerBuf, auth,
                   ctx, Config, peersWithoutRemotes, rxMsgs, last_heartbeat_at,
                   now>>

\* time.perf_counter() moves on
Tick ==
    /\ now < MaxTime
    /\ now' = now + 1
    /\ last' = Quiet("tick")
    /\ UNCHANGED <<remotes, remotesByKeys, heap, verifiers, listener, listenerBuf,
                   auth, ctx, Config, peersWithoutRemotes, rxMsgs,
                   last_heartbeat_at>>

\* bursts: up to MaxBurst frames wait in the sockets and in the queue
BurstAtListener(ident, msg) ==
    /\ listener
    /\ InFlight < MaxBurst
    /\ listenerBuf' = Append(listenerBuf, [ident |-> ident, msg |-> msg])
    /\ last' = Quiet("arrive")
    /\ UNCHANGED <<remotes, remotesByKeys, heap, verifiers, listener, auth, ctx,
                   Config, peersWithoutRemotes, rxMsgs, last_heartbeat_at, now>>

BurstAtRemote(remote, msg) ==
    /\ heap[remote].socket
    /\ InFlight < MaxBurst
    /\ heap' = [heap EXCEPT ![remote].inbox = Append(@, msg)]
    /\ last' = Quiet("arrive")
    /\ UNCHANGED <<remotes, remotesByKeys, verifiers, listener, listenerBuf, auth,
                   ctx, Config, peersWithoutRemotes, rxMsgs, last_heartbeat_at,
                   now>>

\* ------------------------------------------------------------------------
\* Specification
\* ------------------------------------------------------------------------
Optional(S) == {None} \cup {Some(x) : x \in S}
Limits == Optional(0..MaxLimit)

\* the peers whose sockets may answer EAGAIN during one operation
Busy == SUBSET {"k1"}

\* a tick can send only heartbeats and pongs, so EAGAIN can show only when a
\* heartbeat is due or a ping waits in the queue or in a socket
PingPending ==
    \/ \E i \in DOMAIN rxMsgs : rxMsgs[i].msg = pingMessage
    \/ \E i \in DOMAIN listenerBuf : listenerBuf[i].msg = pingMessage
    \/ \E r \in ObjIds : \E i \in DOMAIN heap[r].inbox : heap[r].inbox[i] = pingMessage

DoService ==
    \E limit \in Limits, names \in Orders(RemoteNames),
       idents \in Orders(RemoteIdents),
       busy \in (IF HeartbeatDue \/ PingPending THEN Busy ELSE {{}}) :
        Service(limit, names, idents, busy)

\* Spec: one peer, A with the key k1, sends frames to the stack, which adds,
\* connects, disconnects and removes its remote for A at any time
Next ==
    \/ AddRemote("A", NoKey, "k1")
    \/ \E r \in ObjIds : RemoveRemote(r)
    \/ \E busy \in Busy : Connect("A", Some("ha"), None, None, busy)
    \/ \E busy \in Busy : ReconnectRemote("A", busy)
    \/ DisconnectByName("A")
    \/ Start(None, TRUE)
    \/ Stop
    \/ DoService
    \/ \E f \in Frames : ArriveAtListener("k1", f)
    \/ \E r \in ObjIds, f \in Frames : ArriveAtRemote(r, f)

Spec == Init /\ [][Next]_vars

\* SpecIdx: the remote table under every call of the remote management and
\* the lifecycle, with two names, two keys and no traffic
InitIdx ==
    /\ InitCommon
    /\ restricted = TRUE
    /\ onlyListener = FALSE
    /\ enableHeartbeats = FALSE
    /\ peer = NoPeer

NextIdx ==
    \/ \E n \in Names, v \in {NoKey, "v1"}, k \in Keys : AddRemote(n, v, k)
    \/ \E r \in ObjIds : RemoveRemote(r)
    \/ \E n \in Names, ha \in Optional({"ha"}), v \in Optional({"v1"}),
          k \in Optional(Keys) : Connect(n, ha, v, k, {})
    \/ \E n \in Names : ReconnectRemote(n, {})
    \/ \E n \in Names : DisconnectByName(n)
    \/ Start(None, TRUE)
    \/ Stop
    \/ DoService

SpecIdx == InitIdx /\ [][NextIdx]_vars

\* SpecSend: the application sends to two remotes, A with the key k1 and B
\* with the key k2, by name, by identity and to all, in both modes; the peer
\* k1 sends application frames to the listener and pongs to the remote A
WideText == <<233, 233, 233, 233>>
SendMsgs == {Map({<<"a", 1>>}), Str(WideText), Bytes(pingMessage)}
SendTo == Names \cup {"k1"}
KeyOf == [n \in Names |-> IF n = "A" THEN "k1" ELSE "k2"]

InitSend ==
    /\ InitCommon
    /\ restricted = TRUE
    /\ onlyListener \in BOOLEAN
    /\ enableHeartbeats = FALSE
    /\ peer = NoPeer

\* EAGAIN can come only from a socket there is: a remote's, or the listener's
\* route to a peer
Sockets ==
    {heap[r].publicKey : r \in {i \in ObjIds : heap[i].socket}}
        \cup (IF listener THEN peersWithoutRemotes ELSE {})

Unicast ==
    \E msg \in SendMsgs, to \in SendTo, busy \in SUBSET Sockets :
        Send(msg, Some(to), <<>>, busy)

Broadcasting ==
    \E msg \in SendMsgs, order \in Orders(RemoteNames), busy \in SUBSET Sockets :
        Send(msg, None, order, busy)

\* a tick that processes every queued frame and meets no EAGAIN
ServiceAll ==
    \E names \in Orders(RemoteNames), idents \in Orders(RemoteIdents) :
        Service(None, names, idents, {})

NextSend ==
    \/ \E n \in Names : AddRemote(n, NoKey, KeyOf[n])
    \/ \E n \in Names : Connect(n, Some("ha"), Some("v1"), Some(KeyOf[n]), {})
    \/ Start(None, TRUE)
    \/ Stop
    \/ ServiceAll
    \/ ArriveAtListener("k1", AppFrame)
    \/ ArriveAtRemote(<<"A", "k1">>, pongMessage)
    \/ Unicast
    \/ Broadcasting

SpecSend == InitSend /\ [][NextSend]_vars

\* SpecDrain: the peer k1 sends bursts of application frames, oversize frames
\* and empty probe frames to the listener and to the socket of the remote A;
\* the unknown peer k2 sends application frames to the listener
DrainFrames == {AppFrame, AltFrame, EmptyFrame, OversizeFrame}

InitDrain ==
    /\ InitCommon
    /\ restricted = TRUE
    /\ onlyListener = FALSE
    /\ enableHeartbeats = FALSE
    /\ peer = NoPeer

\* a tick that meets no EAGAIN
ServiceQuiet ==
    \E limit \in Limits, names \in Orders(RemoteNames),
       idents \in Orders(RemoteIdents) : Service(limit, names, idents, {})

NextDrain ==
    \/ Connect("A", Some("ha"), None, None, {})
    \/ Start(None, TRUE)
    \/ Stop
    \/ ServiceQuiet
    \/ \E f \in DrainFrames : BurstAtListener("k1", f)
    \/ BurstAtListener("k2", AltFrame)
    \/ \E f \in DrainFrames : BurstAtRemote(<<"A", "k1">>, f)

SpecDrain == InitDrain /\ [][NextDrain]_vars

\* SpecBeat: heartbeats are enabled; the stack keeps two remotes, A and B,
\* and ticks while the clock moves on
InitBeat ==
    /\ InitCommon
    /\ restricted = TRUE
    /\ onlyListener \in BOOLEAN
    /\ enableHeartbeats = TRUE
    /\ peer = NoPeer

ServiceBeat ==
    \E names \in Orders(RemoteNames), idents \in Orders(RemoteIdents),
       busy \in SUBSET Sockets : Service(None, names, idents, busy)

NextBeat ==
    \/ \E n \in Names : AddRemote(n, NoKey, KeyOf[n])
    \/ \E n \in Names : Connect(n, Some("ha"), Some("v1"), Some(KeyOf[n]), {})
    \/ \E n \in Names : DisconnectByName(n)
    \/ Start(None, TRUE)
    \/ Stop
    \/ Tick
    \/ ServiceBeat

SpecBeat == InitBeat /\ [][NextBeat]_vars

\* SpecLife: the lifecycle with every argument of start and setRestricted,
\* on a stack that adds and connects its remotes A and B
InitLife ==
    /\ InitCommon
    /\ restricted \in BOOLEAN
    /\ onlyListener = FALSE
    /\ enableHeartbeats = FALSE
    /\ peer = NoPeer

NextLife ==
    \/ \E n \in Names : AddRemote(n, NoKey, KeyOf[n])
    \/ \E n \in Names : Connect(n, Some("ha"), None, Some(KeyOf[n]), {})
    \/ \E n \in Names : DisconnectByName(n)
    \/ \E r \in Optional(BOOLEAN), reSetupAuth \in BOOLEAN : Start(r, reSetupAuth)
    \/ Stop
    \/ \E b \in BOOLEAN : SetRestricted(b)

SpecLife == InitLife /\ [][NextLife]_vars

\* SpecPair: two stacks, A with the key k1 and B with the key k2, each in
\* either mode, over a transport that delivers every frame. The variables hold
\* the stack that runs, peer.st the other one; A connects to B when both have
\* started, and from then on the stacks tick in turn.
Other(n) == IF n = "A" THEN "B" ELSE "A"

\* the stack that runs, as a record
Running ==
    [remotes |-> remotes, remotesByKeys |-> remotesByKeys, heap |-> heap,
     verifiers |-> verifiers, listener |-> listener, listenerBuf |-> listenerBuf,
     auth |-> auth, ctx |-> ctx, restricted |-> restricted,
     onlyListener |-> onlyListener, peersWithoutRemotes |-> peersWithoutRemotes,
     rxMsgs |-> rxMsgs, last_heartbeat_at |-> last_heartbeat_at,
     enableHeartbeats |-> enableHeartbeats]

\* a stack after __init__
Fresh(ol) ==
    [remotes |-> NoRemotes, remotesByKeys |-> NoRemotesByKeys, heap |-> EmptyHeap,
     verifiers |-> getAllVerKeys, listener |-> FALSE, listenerBuf |-> <<>>,
     auth |-> None, ctx |-> FALSE, restricted |-> TRUE, onlyListener |-> ol,
     peersWithoutRemotes |-> {}, rxMsgs |-> <<>>, last_heartbeat_at |-> None,
     enableHeartbeats |-> FALSE]

StackOf(n) == IF peer.me = n THEN Running ELSE peer.st

InitPair ==
    /\ InitCommon
    /\ restricted = TRUE
    /\ onlyListener \in BOOLEAN
    /\ enableHeartbeats = FALSE
    /\ peer \in {[me |-> "A", st |-> Fresh(ol), ticks |-> [n \in Names |-> 0]] :
                    ol \in BOOLEAN}

\* the stack st, with the key toKey, gets the frame f that the stack with the
\* key fromKey sent: a frame sent on a remote's socket reaches the listener of
\* the stack it was dialled to, under the sender's identity; a frame sent on
\* the listener reaches the socket with that identity
Accept(st, f, fromKey, toKey) ==
    IF f.to /= toKey THEN st
    ELSE IF f.via = "remote"
    THEN IF st.listener
         THEN [st EXCEPT !.listenerBuf = Append(@, [ident |-> fromKey, msg |-> f.msg])]
         ELSE st
    ELSE IF st.remotesByKeys[fromKey] /= NoObj
            /\ st.heap[st.remotesByKeys[fromKey]].socket
    THEN [st EXCEPT !.heap[st.remotesByKeys[fromKey]].inbox = Append(@, f.msg)]
    ELSE st

RECURSIVE AcceptAll(_, _, _, _)
AcceptAll(st, wire, fromKey, toKey) ==
    IF wire = <<>> THEN st
    ELSE AcceptAll(Accept(st, Head(wire), fromKey, toKey), Tail(wire), fromKey, toKey)

\* the transport delivers what the running stack has sent
Transport ==
    /\ last.wire /= <<>>
    /\ peer' = [peer EXCEPT !.st = AcceptAll(@, last.wire, KeyOf[peer.me],
                                             KeyOf[Other(peer.me)])]
    /\ last' = [last EXCEPT !.wire = <<>>]
    /\ UNCHANGED <<remotes, remotesByKeys, heap, verifiers, listener, listenerBuf,
                   auth, ctx, restricted, onlyListener, enableHeartbeats,
                   peersWithoutRemotes, rxMsgs, last_heartbeat_at, now>>

\* the other stack runs; a tick that followed the connect is counted
Switch ==
    /\ last.wire = <<>>
    /\ last.op \in {"start", "connect", "service"}
    /\ remotes' = peer.st.remotes
    /\ remotesByKeys' = peer.st.remotesByKeys
    /\ heap' = peer.st.heap
    /\ verifiers' = peer.st.verifiers
    /\ listener' = peer.st.listener
    /\ listenerBuf' = peer.st.listenerBuf
    /\ auth' = peer.st.auth
    /\ ctx' = peer.st.ctx
    /\ restricted' = peer.st.restricted
    /\ onlyListener' = peer.st.onlyListener
    /\ peersWithoutRemotes' = peer.st.peersWithoutRemotes
    /\ rxMsgs' = peer.st.rxMsgs
    /\ last_heartbeat_at' = peer.st.last_heartbeat_at
    /\ enableHeartbeats' = peer.st.enableHeartbeats
    /\ peer' = [me |-> Other(peer.me), st |-> Running,
                ticks |-> IF last.op = "service" /\ StackOf("A").remotes["B"] /= NoObj
                          THEN [peer.ticks EXCEPT ![peer.me] = Min(@ + 1, MaxTicks)]
                          ELSE peer.ticks]
    /\ last' = Quiet("switch")
    /\ now' = now

PairStart == last.wire = <<>> /\ Start(None, TRUE)

\* A.connect("B", ha of B) with B's keys, once both stacks have started
PairConnect ==
    /\ last.wire = <<>>
    /\ peer.me = "A"
    /\ listener
    /\ peer.st.listener
    /\ remotes["B"] = NoObj
    /\ Connect("B", Some("ha"), Some("v1"), Some(KeyOf["B"]), {})

\* one tick in a turn
PairService ==
    /\ last.wire = <<>>
    /\ last.op /= "service"
    /\ \E limit \in Limits, names \in Orders(RemoteNames),
          idents \in Orders(RemoteIdents) : Service(limit, names, idents, {})

NextPair ==
    \/ PairStart
    \/ PairConnect
    \/ PairService
    \/ Transport
    \/ Switch

SpecPair == InitPair /\ [][NextPair]_vars

\* SpecConn: connect with every combination of given and missing address and
\* keys, in restricted and unrestricted mode; A's keys are on disk, B's are not
InitConn ==
    /\ InitCommon
    /\ restricted \in BOOLEAN
    /\ onlyListener = FALSE
    /\ enableHeartbeats = FALSE
    /\ peer = NoPeer

ConnectArgs == Optional({"ha"}) \X Optional({"v1"}) \X Optional(Keys)

NextConn ==
    \/ \E n \in Names, a \in ConnectArgs, busy \in SUBSET Sockets :
          Connect(n, a[1], a[2], a[3], busy)
    \/ \E r \in ObjIds : RemoveRemote(r)
    \/ \E r \in Optional(BOOLEAN) : Start(r, TRUE)
    \/ Stop

SpecConn == InitConn /\ [][NextConn]_vars

\* SpecJson: the peer k1 sends the listener application frames, frames that
\* decode to an empty object, frames that are not JSON and pings; the unknown
\* peer k2 sends application frames
JsonFrames == {AppFrame, EmptyObjFrame, BadJsonFrame, pingMessage}

InitJson ==
    /\ InitCommon
    /\ restricted = TRUE
    /\ onlyListener = FALSE
    /\ enableHeartbeats = FALSE
    /\ peer = NoPeer

NextJson ==
    \/ AddRemote("A", NoKey, "k1")
    \/ Start(None, TRUE)
    \/ Stop
    \/ ServiceQuiet
    \/ \E f \in JsonFrames : BurstAtListener("k1", f)
    \/ BurstAtListener("k2", AppFrame)

SpecJson == InitJson /\ [][NextJson]_vars

\* SpecHalt: heartbeats are enabled and the stack is started and stopped
\* while frames wait at the listener, at the socket of the remote A and in
\* the queue, and while the clock moves on
InitHalt ==
    /\ InitCommon
    /\ restricted = TRUE
    /\ onlyListener = FALSE
    /\ enableHeartbeats = TRUE
    /\ peer = NoPeer

NextHalt ==
    \/ Connect("A", Some("ha"), None, None, {})
    \/ Start(None, TRUE)
    \/ Stop
    \/ Tick
    \/ ServiceQuiet
    \/ BurstAtListener("k1", AltFrame)
    \/ BurstAtRemote(<<"A", "k1">>, AppFrame)

SpecHalt == InitHalt /\ [][NextHalt]_vars

\* SpecPeers: the peer k1 sends valid, undecodable and empty frames and the
\* peer k2 oversize frames to the listener of a stack that is listener-only
\* or not, and that adds a remote for k1 and removes remotes and peers by name
PeerFrames == {AppFrame, BadUtf8Frame, EmptyFrame}

InitPeers ==
    /\ InitCommon
    /\ restricted = TRUE
    /\ onlyListener \in BOOLEAN
    /\ enableHeartbeats = FALSE
    /\ peer = NoPeer

NextPeers ==
    \/ AddRemote("A", NoKey, "k1")
    \/ \E n \in Names \cup Keys : RemoveRemoteByName(n)
    \/ Start(None, TRUE)
    \/ Stop
    \/ ServiceQuiet
    \/ \E f \in PeerFrames : BurstAtListener("k1", f)
    \/ BurstAtListener("k2", OversizeFrame)

SpecPeers == InitPeers /\ [][NextPeers]_vars

\* ------------------------------------------------------------------------
\* Properties
\* ------------------------------------------------------------------------
IsPing(e) == e.msg = pingMessage
IsPong(e) == e.msg = pongMessage
NotHealth(e) == e.msg \notin {pingMessage, pongMessage}
FrameFits(f) == Len(f.msg) <= MSG_LEN_LIMIT /\ Utf8Valid(f.msg)
FrameUnfit(f) == ~FrameFits(f)
\* the name under which an identity is known: its remote's name, or itself
KnownAs(ident) ==
    IF remotesByKeys[ident] /= NoObj THEN heap[remotesByKeys[ident]].name ELSE ident
\* the queue entries of the frames fs
Entries(fs) == [i \in 1..Len(fs) |-> [msg |-> Utf8Decode(fs[i].msg), ident |-> fs[i].ident]]

\* C1: every remote in `remotes` is the value of remotesByKeys under its own
\* encryption public key (remotesByKeys[r.publicKey] is r).
C1_RemotesIndexedByKey ==
    \A n \in Names :
        remotes[n] /= NoObj =>
            remotesByKeys[heap[remotes[n]].publicKey] = remotes[n]

\* C2: every value of remotesByKeys is a remote stored in `remotes` under its
\* own name.
C2_ByKeysPointIntoRemotes ==
    \A k \in Keys :
        remotesByKeys[k] /= NoObj =>
            remotes[heap[remotesByKeys[k]].name] = remotesByKeys[k]

\* C3: right after stop(), remotes, remotesByKeys and peersWithoutRemotes are
\* empty and the listener is None.
C3_StopClearsAll ==
    last.op = "stop" =>
        /\ remotes = NoRemotes
        /\ remotesByKeys = NoRemotesByKeys
        /\ peersWithoutRemotes = {}
        /\ ~listener

\* C4: every entry of rxMsgs, queued or just popped, is the text of a frame
\* of at most MSG_LEN_LIMIT bytes that is valid UTF-8.
C4_QueuedFramesValid ==
    \A e \in {rxMsgs[i] : i \in DOMAIN rxMsgs}
             \cup {last.popped[i] : i \in DOMAIN last.popped} :
        /\ Len(Utf8Encode(e.msg)) <= MSG_LEN_LIMIT
        /\ Utf8Valid(Utf8Encode(e.msg))
        /\ Utf8Decode(Utf8Encode(e.msg)) = e.msg

\* a tick drained a frame it rejected and a valid frame, which went through
\* the queue
C4_Witness ==
    /\ last.op = "service"
    /\ last.rejected /= <<>>
    /\ \E i \in DOMAIN last.drained : FrameFits(last.drained[i])
    /\ last.popped /= <<>>

\* C5: in a service tick the rejection handler is called exactly once for each
\* drained frame that is oversize or not UTF-8, in order, with the remote's
\* name when the identity is in remotesByKeys and the raw identity otherwise;
\* exactly the other drained frames are appended to rxMsgs; and every call of
\* the message handler is for an entry popped from rxMsgs.
C5_RejectedFramesDropped ==
    [][last'.op = "service" =>
        LET bad == SelectSeq(last'.drained, FrameUnfit)
            good == SelectSeq(last'.drained, FrameFits)
        IN  /\ Len(last'.rejected) = Len(bad)
            /\ \A i \in DOMAIN bad :
                  /\ last'.rejected[i].msg = bad[i].msg
                  /\ last'.rejected[i].frm = KnownAs(bad[i].ident)
            /\ last'.popped \o rxMsgs' = rxMsgs \o Entries(good)
            /\ \A i \in DOMAIN last'.handled :
                  \E j \in DOMAIN last'.popped :
                      /\ JsonOk(last'.popped[j].msg)
                      /\ last'.handled[i].msg = JsonLoads(last'.popped[j].msg)
       ]_vars

\* one tick rejected an oversize frame and a frame that is not UTF-8, both
\* reported under the name of the remote
C5_Witness ==
    /\ last.op = "service"
    /\ \E i, j \in DOMAIN last.rejected :
          /\ last.rejected[i].msg = OversizeFrame
          /\ last.rejected[j].msg = BadUtf8Frame
          /\ last.rejected[i].frm = "A"

\* C6: a service tick transmits exactly one pong for every ping it pops.
C6_PingElicitsOnePong ==
    last.op = "service" =>
        Len(SelectSeq(last.wire, IsPong)) = Len(SelectSeq(last.popped, IsPing))

\* C7: when a tick pops a pong whose identity is a key of remotesByKeys, that
\* remote is connected afterwards; and a remote's connected flag goes from
\* false to true only in a tick that pops a pong from its key.
C7_PongSetsConnected ==
    [][/\ last'.op = "service" =>
            \A i \in DOMAIN last'.popped :
                (IsPong(last'.popped[i])
                 /\ remotesByKeys[last'.popped[i].ident] /= NoObj)
                => heap'[remotesByKeys[last'.popped[i].ident]].isConnected
       /\ \A r \in ObjIds :
            (~heap[r].isConnected /\ heap'[r].isConnected) =>
                /\ last'.op = "service"
                /\ \E i \in DOMAIN last'.popped :
                      /\ IsPong(last'.popped[i])
                      /\ remotesByKeys[last'.popped[i].ident] = r
      ]_vars

\* a tick popped a pong from A and A's remote is connected
C7_Witness ==
    /\ last.op = "service"
    /\ \E i \in DOMAIN last.popped : IsPong(last.popped[i])
    /\ heap[<<"A", "k1">>].isConnected

\* C8: for a popped health message processReceived neither decodes JSON nor
\* calls the message handler: no decode error is logged for one, and the
\* handler calls and decode errors of a tick are at most the other popped
\* frames.
C8_HealthNotForwarded ==
    last.op = "service" =>
        /\ \A i \in DOMAIN last.jsonErrors : NotHealth(last.jsonErrors[i])
        /\ Len(last.handled) + Len(last.jsonErrors)
              <= Len(SelectSeq(last.popped, NotHealth))

\* a tick popped a ping and an application message and delivered the latter
C8_Witness ==
    /\ last.op = "service"
    /\ \E i \in DOMAIN last.popped : IsPing(last.popped[i])
    /\ Len(last.handled) = 1

\* C9: service returns the number of frames it popped.
C9_ReturnsProcessedCount ==
    last.op = "service" => last.ret = Some(Len(last.popped))

\* C10: service(limit) with an integer limit >= 0 pops at most limit frames.
C10_LimitBoundsPopped ==
    (last.op = "service" /\ last.arg /= None) =>
        Len(last.popped) <= last.arg[1]

\* the message and the target of the send that `last` records
SentMsg == last.arg[1][1]
SentTo == last.arg[1][2]
Oversize(msg) == Len(serializeMsg(msg)) > MSG_LEN_LIMIT

\* C11: a send, to one name or to all, of a message whose serialized bytes
\* are longer than MSG_LEN_LIMIT performs no socket send and returns false as
\* its first element.
C11_OversizeNeverSent ==
    (last.op = "send" /\ Oversize(SentMsg)) =>
        /\ last.wire = <<>>
        /\ last.ret[1][1] = FALSE

\* an oversize message for a remote whose socket is open was refused with a
\* diagnostic
C11_Witness ==
    /\ last.op = "send"
    /\ Oversize(SentMsg)
    /\ ~onlyListener
    /\ SentTo = Some("A")
    /\ remotes["A"] /= NoObj
    /\ heap[remotes["A"]].socket
    /\ last.ret[1][2] /= None

\* C12: in non-listener-only mode send(msg, name) returns (false, None) and
\* sends nothing when no remote has that name or its socket is uninitialized;
\* else (false, diagnostic) when the serialized message exceeds the limit; else
\* (false, None) on EAGAIN; else (true, None) with the bytes sent on the
\* remote's socket, whether the remote is connected or not.
C12_UnicastResults ==
    [][\A msg \in SendMsgs, to \in SendTo, busy \in SUBSET Keys :
        (~onlyListener /\ Send(msg, Some(to), <<>>, busy)) =>
            LET remote == IF to \in Names THEN remotes[to] ELSE NoObj
                ret == last'.ret[1]
            IN  IF remote = NoObj \/ ~heap[remote].socket
                THEN ret = <<FALSE, None>> /\ last'.wire = <<>>
                ELSE IF Oversize(msg)
                THEN ret[1] = FALSE /\ ret[2] /= None /\ last'.wire = <<>>
                ELSE IF heap[remote].publicKey \in busy
                THEN ret = <<FALSE, None>> /\ last'.wire = <<>>
                ELSE /\ ret = <<TRUE, None>>
                     /\ last'.wire = <<Sent("remote", heap[remote].publicKey,
                                            serializeMsg(msg))>>]_vars

\* an application message was sent with success to a remote that is not
\* connected
C12_Witness ==
    /\ last.op = "send"
    /\ ~onlyListener
    /\ SentTo = Some("A")
    /\ SentMsg = Map({<<"a", 1>>})
    /\ last.ret = Some(<<TRUE, None>>)
    /\ ~heap[remotes["A"]].isConnected

\* the frames a broadcast of msg puts on the wire, and its first return
\* element, when the remotes are visited in the order `order`
BroadcastOutcome(msg, order, busy) ==
    LET ok(n) == heap[remotes[n]].socket /\ heap[remotes[n]].publicKey \notin busy
        reached == SelectSeq(order, ok)
    IN  /\ last'.wire = [i \in 1..Len(reached) |->
                            Sent("remote", heap[remotes[reached[i]]].publicKey,
                                 serializeMsg(msg))]
        /\ last'.ret[1][1] = (\A n \in RemoteNames : ok(n))

\* C13: send(msg) with no name transmits the same serialized bytes to every
\* remote in `remotes`, going on past the remotes whose transmit fails, and
\* returns true as its first element iff every transmit succeeded.
C13_BroadcastReachesAll ==
    [][\A msg \in SendMsgs, order \in Orders(RemoteNames), busy \in SUBSET Keys :
        (Send(msg, None, order, busy) /\ ~Oversize(msg)) =>
            BroadcastOutcome(msg, order, busy)]_vars

\* C13, amended: in non-listener-only mode send(msg) with no name transmits
\* the same serialized bytes to every remote in `remotes`, going on past the
\* remotes whose transmit fails, and returns true iff every transmit succeeded.
C13_BroadcastReachesAllNormalMode ==
    [][\A msg \in SendMsgs, order \in Orders(RemoteNames), busy \in SUBSET Keys :
        (~onlyListener /\ Send(msg, None, order, busy) /\ ~Oversize(msg)) =>
            BroadcastOutcome(msg, order, busy)]_vars

\* a broadcast to two remotes failed on one and reached the other
C13_Witness ==
    /\ last.op = "send"
    /\ ~onlyListener
    /\ SentTo = None
    /\ RemoteNames = Names
    /\ last.ret[1][1] = FALSE
    /\ Len(last.wire) = 1

\* C14: a broadcast of a message within the limit to a reachable remote and a
\* remote whose socket is uninitialised returns (false, errors) with errors a
\* string, not None, and the frame goes out to the reachable remote.
C14_PartialFailureReported ==
    [][\A msg \in SendMsgs, order \in Orders(RemoteNames), busy \in SUBSET Keys :
        (/\ ~onlyListener
         /\ Send(msg, None, order, busy)
         /\ ~Oversize(msg)
         /\ \E d \in RemoteNames : ~heap[remotes[d]].socket) =>
            \A b \in RemoteNames :
                (heap[remotes[b]].socket /\ heap[remotes[b]].publicKey \notin busy) =>
                    /\ last'.ret[1][1] = FALSE
                    /\ last'.ret[1][2] /= None
                    /\ \E i \in DOMAIN last'.wire :
                          last'.wire[i] = Sent("remote", heap[remotes[b]].publicKey,
                                               serializeMsg(msg))]_vars

\* C15: in listener-only mode send(msg, identity) returns true only for an
\* identity in peersWithoutRemotes, and then it has sent the bytes on the
\* listener; for any other identity it returns (false, None) and sends nothing.
C15_ListenerOnlySendsToPeers ==
    (last.op = "send" /\ onlyListener) =>
        LET ident == IF SentTo = None THEN NoKey ELSE SentTo[1]
        IN  /\ last.ret[1][1] =>
                  /\ ident \in peersWithoutRemotes
                  /\ last.wire = <<Sent("listener", ident, serializeMsg(SentMsg))>>
            /\ ident \notin peersWithoutRemotes =>
                  /\ last.ret = Some(<<FALSE, None>>)
                  /\ last.wire = <<>>

\* a listener-only stack sent to a peer it had heard from
C15_Witness ==
    /\ last.op = "send"
    /\ onlyListener
    /\ last.ret = Some(<<TRUE, None>>)
    /\ SentTo = Some("k1")

\* the frames of a tick's drain that came from the listener, from a remote
ViaListener(f) == f.via = "listener"
ViaRemote(f) == f.via = "remote"
NonEmptyEntry(e) == e.msg /= <<>>
NonEmptyMsg(m) == m /= <<>>
\* what the external handler is called with for a popped entry
Deliverable(e) == NotHealth(e) /\ JsonOk(e.msg) /\ Truthy(JsonLoads(e.msg))

\* C17: a tick drains the listener before any remote; the frames taken from
\* one socket are the head of what waited there, in arrival order, and go to
\* the tail of rxMsgs in that order; frames leave rxMsgs from its head, and
\* the handler is called for the popped application frames in that order.
C17_SocketOrderKept ==
    [][last'.op = "service" =>
        LET dr == last'.drained
            L == SelectSeq(dr, ViaListener)
            R == SelectSeq(dr, ViaRemote)
            del == SelectSeq(last'.popped, Deliverable)
        IN  /\ dr = L \o R
            /\ \E n \in 0..Len(listenerBuf) :
                  /\ listenerBuf' = Drop(listenerBuf, n)
                  /\ [i \in 1..Len(L) |-> [ident |-> L[i].ident, msg |-> L[i].msg]]
                        = SelectSeq(SubSeq(listenerBuf, 1, n), NonEmptyEntry)
            /\ \A r \in ObjIds :
                  LET FromR(f) == f.ident = heap[r].publicKey
                      Rr == SelectSeq(R, FromR)
                  IN  heap[r].socket =>
                        \E n \in 0..Len(heap[r].inbox) :
                          /\ heap'[r].inbox = Drop(heap[r].inbox, n)
                          /\ [i \in 1..Len(Rr) |-> Rr[i].msg]
                                = SelectSeq(SubSeq(heap[r].inbox, 1, n), NonEmptyMsg)
            /\ last'.popped \o rxMsgs' = rxMsgs \o Entries(SelectSeq(dr, FrameFits))
            /\ last'.handled = [i \in 1..Len(del) |->
                                  [msg |-> JsonLoads(del[i].msg),
                                   frm |-> KnownAs(del[i].ident)]]]_vars

\* a tick drained the listener and a remote, and the handler got two
\* different application frames
C17_Witness ==
    /\ last.op = "service"
    /\ \E i \in DOMAIN last.drained : ViaListener(last.drained[i])
    /\ \E i \in DOMAIN last.drained : ViaRemote(last.drained[i])
    /\ Len(last.handled) >= 2
    /\ last.handled[1] /= last.handled[2]

\* C18: a tick takes from the listener the first listenerQuota non-empty
\* frames that wait there (all of them when fewer wait), and from every remote
\* with a socket the first senderQuota; empty frames are never drained into the
\* queue and do not count, rejected frames count like the others.
C18_QuotasBoundDrain ==
    [][last'.op = "service" =>
        LET dr == last'.drained
            L == SelectSeq(dr, ViaListener)
            R == SelectSeq(dr, ViaRemote)
        IN  /\ Len(L) = IF listener
                        THEN Min(listenerQuota,
                                 Len(SelectSeq(listenerBuf, NonEmptyEntry)))
                        ELSE 0
            /\ \A k \in Keys :
                  LET FromK(f) == f.ident = k
                  IN  Len(SelectSeq(R, FromK))
                        = IF listener /\ remotesByKeys[k] /= NoObj
                             /\ heap[remotesByKeys[k]].socket
                          THEN Min(senderQuota,
                                   Len(SelectSeq(heap[remotesByKeys[k]].inbox,
                                                 NonEmptyMsg)))
                          ELSE 0
            /\ \A i \in DOMAIN dr : dr[i].msg /= <<>>
            /\ Len(last'.popped) + Len(rxMsgs')
                  = Len(rxMsgs) + Len(dr) - Len(last'.rejected)]_vars

\* a tick took listenerQuota frames from the listener, one of which it
\* rejected, and left a frame waiting there
C18_Witness ==
    /\ last.op = "service"
    /\ Len(SelectSeq(last.drained, ViaListener)) = listenerQuota
    /\ last.rejected /= <<>>
    /\ listenerBuf /= <<>>

PingFrame(f) == f.msg = pingMessage

\* C19: with heartbeats enabled, a tick of a started stack pings every remote
\* of `remotes` once and sets last_heartbeat_at to the current time iff no
\* heartbeat was recorded or HEARTBEAT_FREQ has passed since; a ping that
\* cannot be sent (no socket, EAGAIN, refused by the listener-only route)
\* neither stops the other pings nor the update; a tick inside the interval
\* sends no ping; last_heartbeat_at never decreases.
C19_HeartbeatCadence ==
    [][/\ \A limit \in Limits, names \in Orders(RemoteNames),
             idents \in Orders(RemoteIdents), busy \in SUBSET Keys :
            (enableHeartbeats /\ listener /\ Service(limit, names, idents, busy)) =>
                LET due == \/ last_heartbeat_at = None
                           \/ now - last_heartbeat_at[1] >= HEARTBEAT_FREQ
                    ok(n) == /\ ~onlyListener
                             /\ heap[remotes[n]].socket
                             /\ heap[remotes[n]].publicKey \notin busy
                    reached == SelectSeq(names, ok)
                    pings == SelectSeq(last'.wire, PingFrame)
                IN  IF due
                    THEN /\ pings = [i \in 1..Len(reached) |->
                                       Sent("remote", heap[remotes[reached[i]]].publicKey,
                                            pingMessage)]
                         /\ last_heartbeat_at' = Some(now)
                    ELSE /\ pings = <<>>
                         /\ last_heartbeat_at' = last_heartbeat_at
       /\ last_heartbeat_at /= None =>
              /\ last_heartbeat_at' /= None
              /\ last_heartbeat_at'[1] >= last_heartbeat_at[1]]_vars

\* a later heartbeat reached one of two remotes and not the other
C19_Witness ==
    /\ last.op = "service"
    /\ RemoteNames = Names
    /\ ~onlyListener
    /\ Len(SelectSeq(last.wire, PingFrame)) = 1
    /\ last_heartbeat_at = Some(now)
    /\ now >= HEARTBEAT_FREQ

\* C20: setRestricted(b) on a started stack changes nothing when b is the
\* current mode; otherwise it leaves the authenticator running in mode b
\* (allow-any iff b is false), a freshly bound listener, `remotes` and
\* remotesByKeys empty and no remote socket open; so a second call with the
\* first mode flips back.
C20_SetRestrictedFlipsMode ==
    [][\A b \in BOOLEAN :
        (listener /\ SetRestricted(b)) =>
            IF b = isRestricted
            THEN UNCHANGED <<listener, listenerBuf, auth, ctx, remotes,
                             remotesByKeys, heap, verifiers>>
            ELSE /\ auth' /= None
                 /\ auth'[1].running
                 /\ auth'[1].allow_any = ~b
                 /\ isRestricted' = b
                 /\ listener'
                 /\ listenerBuf' = <<>>
                 /\ remotes' = NoRemotes
                 /\ remotesByKeys' = NoRemotesByKeys
                 /\ \A r \in ObjIds : ~heap'[r].socket]_vars

\* a started stack that ran allow-any was flipped to restricted
C20_Witness ==
    /\ last.op = "setRestricted"
    /\ last.arg = Some(<<TRUE, FALSE>>)
    /\ listener
    /\ isRestricted
    /\ remotes = NoRemotes

\* both stacks have ticked twice, in turn, since A.connect("B")
TwoTicksEach == peer.ticks["A"] >= 2 /\ peer.ticks["B"] >= 2
\* A's remote for B is connected and B has recorded A's key as a peer
PingPongDone ==
    /\ StackOf("A").remotes["B"] /= NoObj
    /\ StackOf("A").heap[StackOf("A").remotes["B"]].isConnected
    /\ KeyOf["A"] \in StackOf("B").peersWithoutRemotes

\* C16: two started stacks A and B over a transport that delivers every frame:
\* after A.connect("B") and two ticks of each stack, A's remote for B is
\* connected and B.peersWithoutRemotes holds A's encryption public key.
C16_TwoNodePingPong ==
    TwoTicksEach => PingPongDone

\* C16, amended: the same when A is not in listener-only mode and B is in
\* listener-only mode.
C16_TwoNodePingPongToListenerOnly ==
    (TwoTicksEach /\ ~StackOf("A").onlyListener /\ StackOf("B").onlyListener)
        => PingPongDone

\* A connected to a listener-only B, both ticked twice, and the pong came back
C16_Witness ==
    /\ TwoTicksEach
    /\ ~StackOf("A").onlyListener
    /\ StackOf("B").onlyListener
    /\ PingPongDone

\* connect cannot supply the encryption public key, the verify key
PubKeyMissing(name, publicKeyRaw) == publicKeyRaw = None /\ publicKeysDir[name] = NoKey
VerKeyMissing(name, verKeyRaw) == verKeyRaw = None /\ verifKeyDir[name] = NoKey
InfoMissing(name, a) ==
    \/ a[1] = None
    \/ PubKeyMissing(name, a[3])
    \/ isRestricted /\ VerKeyMissing(name, a[2])
\* a connect that failed left the tables alone and sent no ping
NothingAdded ==
    /\ UNCHANGED <<remotes, remotesByKeys, verifiers, heap>>
    /\ last'.wire = <<>>

\* C21: connect for a name not in `remotes` raises ValueError when the
\* address is missing, the encryption public key cannot be supplied or, in
\* restricted mode, the verify key cannot be supplied, and then adds no remote,
\* changes no table and sends no ping; with nothing else missing an absent
\* verify key does not fail connect in unrestricted mode.
C21_ConnectRaisesValueError ==
    [][\A n \in Names, a \in ConnectArgs, busy \in SUBSET Keys :
        (remotes[n] = NoObj /\ Connect(n, a[1], a[2], a[3], busy)) =>
            IF InfoMissing(n, a)
            THEN last'.ret = Some("ValueError") /\ NothingAdded
            ELSE remotes'[n] /= NoObj /\ (ctx => last'.ret = Some(n))]_vars

\* C21, amended: connect for a name not in `remotes` raises
\* PublicKeyNotFoundOnDisk when the encryption public key is neither given nor
\* on disk, else VerKeyNotFoundOnDisk when in restricted mode the verify key
\* is neither given nor on disk, else ValueError when the address is missing;
\* then it adds no remote, changes no table and sends no ping; an absent
\* verify key alone does not fail connect in unrestricted mode.
C21_ConnectRaisesOnMissingInfo ==
    [][\A n \in Names, a \in ConnectArgs, busy \in SUBSET Keys :
        (remotes[n] = NoObj /\ Connect(n, a[1], a[2], a[3], busy)) =>
            IF InfoMissing(n, a)
            THEN /\ last'.ret = Some(IF PubKeyMissing(n, a[3])
                                     THEN "PublicKeyNotFoundOnDisk"
                                     ELSE IF isRestricted /\ VerKeyMissing(n, a[2])
                                     THEN "VerKeyNotFoundOnDisk"
                                     ELSE "ValueError")
                 /\ NothingAdded
            ELSE remotes'[n] /= NoObj /\ (ctx => last'.ret = Some(n))]_vars

\* an unrestricted started stack connected to B, whose verify key it was not
\* given and does not have, next to a remote it already had
C21_Witness ==
    /\ last.op = "connect"
    /\ last.ret = Some("B")
    /\ ~isRestricted
    /\ remotes["A"] /= NoObj
    /\ remotes["B"] /= NoObj
    /\ heap[remotes["B"]].verKey = NoKey

\* C22: after any sequence of addRemote and removeRemote, `verifiers` holds
\* the local verify key and the verify key of every remote of `remotes` that
\* was added with one, also when two remotes share a verify key.
C22_VerifiersCoverRemotes ==
    /\ LocalVerKey \in verifiers
    /\ \A n \in Names :
          (remotes[n] /= NoObj /\ heap[remotes[n]].verKey /= NoKey) =>
              heap[remotes[n]].verKey \in verifiers

\* the entries of both indices that do not belong to the remote `remote`
OthersIntact(remote) ==
    /\ \A n \in Names \ {heap[remote].name} : remotes'[n] = remotes[n]
    /\ \A k \in Keys :
          (remotesByKeys[k] /= NoObj /\ remotesByKeys[k] /= remote) =>
              /\ remotesByKeys'[k] = remotesByKeys[k]
              /\ heap'[remotesByKeys[k]] = heap[remotesByKeys[k]]
    /\ \A n \in Names :
          (remotes[n] /= NoObj /\ remotes[n] /= remote) =>
              /\ remotes'[n] = remotes[n]
              /\ heap'[remotes[n]] = heap[remotes[n]]

\* C23: removeRemote(remote) with the remote's name in `remotes` removes the
\* name from `remotes`, the remote's public key from `remotesByKeys` and its
\* verify key from `verifiers` in one step and leaves every other remote's
\* entries in both indices intact; with the name not in `remotes` none of the
\* three tables changes.
C23_RemoveRemoteRemovesOnlyItsOwn ==
    [][\A r \in ObjIds : RemoveRemote(r) =>
        IF remotes[heap[r].name] /= NoObj
        THEN /\ remotes'[heap[r].name] = NoObj
             /\ remotesByKeys'[heap[r].publicKey] = NoObj
             /\ heap[r].verKey \notin verifiers'
             /\ OthersIntact(r)
        ELSE UNCHANGED <<remotes, remotesByKeys, verifiers>>]_vars

\* a popped entry that is no health message and decodes, does not decode
Decodes(e) == NotHealth(e) /\ JsonOk(e.msg)
Undecodable(e) == NotHealth(e) /\ ~JsonOk(e.msg)
\* the handler calls for the entries es
Calls(es) == [i \in 1..Len(es) |-> [msg |-> JsonLoads(es[i].msg),
                                    frm |-> KnownAs(es[i].ident)]]
\* the queue that the processing of a tick starts from
QueueAfterDrain == rxMsgs \o Entries(SelectSeq(last'.drained, FrameFits))
\* the limit a tick works with
PracLimit(limit) == IF limit /= None /\ limit[1] /= 0 THEN limit[1] ELSE maxsize

\* C24: every popped frame that is no health message and decodes as JSON is
\* handed to the handler exactly once, as the pair of the decoded object and
\* the source name, in the order popped; this includes the frames that decode
\* to an empty object.
C24_DecodedFramesDelivered ==
    [][last'.op = "service" =>
        last'.handled = Calls(SelectSeq(last'.popped, Decodes))]_vars

\* C25: a popped frame that is not JSON is removed from the queue and never
\* reaches the handler; the tick returns a count all the same and goes on to
\* the frames behind it, until the limit or the end of the queue; the frame
\* counts toward the limit and the returned count like any other.
C25_DecodeFailureSkipped ==
    [][last'.op = "service" =>
        LET q == QueueAfterDrain
            lim == PracLimit(last'.arg)
        IN  /\ last'.popped = SubSeq(q, 1, Min(lim, Len(q)))
            /\ rxMsgs' = Drop(q, Min(lim, Len(q)))
            /\ last'.jsonErrors = SelectSeq(last'.popped, Undecodable)
            /\ last'.handled = Calls(SelectSeq(last'.popped, Deliverable))
            /\ last'.ret = Some(IF q = <<>> THEN 0 ELSE Min(lim, Len(q) + 1))]_vars

\* a tick popped a frame that is not JSON and, behind it, an application
\* frame that it delivered
C25_Witness ==
    /\ last.op = "service"
    /\ Len(last.popped) = 2
    /\ Undecodable(last.popped[1])
    /\ last.handled = <<[msg |-> JsonLoads(AppFrame), frm |-> "A"]>>
    /\ last.jsonErrors = <<last.popped[1]>>

\* a drain took the first n frames of buf and ended on its quota of non-empty
\* frames or on an empty socket
DrainEnded(buf, rest, quota, NonEmpty(_)) ==
    \E n \in 0..Len(buf) :
        /\ rest = Drop(buf, n)
        /\ \/ Len(SelectSeq(SubSeq(buf, 1, n), NonEmpty)) = quota
           \/ rest = <<>>

\* C26: every drain ends: whatever finite mix of empty, valid and rejected
\* frames waits at a socket, the listener drain and the drain of every remote
\* take a head of it and stop at the quota of non-empty frames or when the
\* socket has nothing more (EAGAIN), and the tick returns, having popped no
\* more than was queued.
C26_DrainsEnd ==
    [][(last'.op = "service" /\ listener) =>
        /\ DrainEnded(listenerBuf, listenerBuf', listenerQuota, NonEmptyEntry)
        /\ \A k \in Keys :
              (remotesByKeys[k] /= NoObj /\ heap[remotesByKeys[k]].socket) =>
                  DrainEnded(heap[remotesByKeys[k]].inbox,
                             heap'[remotesByKeys[k]].inbox, senderQuota, NonEmptyMsg)
        /\ last'.ret /= None
        /\ Len(last'.popped) <= Len(rxMsgs) + Len(last'.drained)]_vars

\* a tick emptied the listener socket below its quota, rejecting a frame, and
\* stopped at the quota on the socket of the remote A, where a frame waits
C26_Witness ==
    /\ last.op = "service"
    /\ listener
    /\ last.rejected /= <<>>
    /\ listenerBuf = <<>>
    /\ Len(SelectSeq(last.drained, ViaListener)) \in 1..(listenerQuota - 1)
    /\ Len(SelectSeq(last.drained, ViaRemote)) = senderQuota
    /\ heap[<<"A", "k1">>].inbox /= <<>>

\* C27: in every reachable state a remote whose connected flag is true has a
\* socket, however service ticks interleave with disconnectByName,
\* reconnectRemote and stop.
C27_ConnectedHasSocket ==
    \A r \in ObjIds :
        (r \in Referenced(remotes, remotesByKeys) /\ heap[r].isConnected) =>
            heap[r].socket

\* C28: a tick of a stack whose listener is None drains no socket, sends no
\* heartbeat and leaves last_heartbeat_at as it was, and still pops and
\* delivers the frames that wait in rxMsgs; stop() leaves rxMsgs as it is.
C28_StoppedStackStillProcesses ==
    [][/\ (last'.op = "service" /\ ~listener) =>
            LET n == Min(PracLimit(last'.arg), Len(rxMsgs))
            IN  /\ last'.drained = <<>>
                /\ UNCHANGED <<listenerBuf, last_heartbeat_at, peersWithoutRemotes>>
                /\ \A r \in ObjIds : heap'[r].inbox = heap[r].inbox
                /\ \A i \in DOMAIN last'.wire : ~PingFrame(last'.wire[i])
                /\ last'.popped = SubSeq(rxMsgs, 1, n)
                /\ rxMsgs' = Drop(rxMsgs, n)
                /\ last'.handled = Calls(SelectSeq(last'.popped, Deliverable))
       /\ last'.op = "stop" => rxMsgs' = rxMsgs]_vars

\* a tick of a stopped stack delivered a frame from the queue while a frame
\* waited at the socket of the remote A and a heartbeat was due
C28_Witness ==
    /\ last.op = "service"
    /\ ~listener
    /\ HeartbeatDue
    /\ last.handled /= <<>>
    /\ heap[<<"A", "k1">>].inbox /= <<>>

\* the identities of the listener frames of a tick's drain that have no remote
Strangers ==
    {last'.drained[i].ident : i \in {j \in DOMAIN last'.drained :
        /\ ViaListener(last'.drained[j])
        /\ remotesByKeys[last'.drained[j].ident] = NoObj}}

\* C29: peersWithoutRemotes grows only in the listener drain of a
\* listener-only stack: it is empty on a stack that is not listener-only; a
\* tick of a listener-only stack adds the identity of every non-empty frame
\* it takes from the listener whose identity is not in remotesByKeys, also of
\* a frame that it then rejects; no other step adds to it.
C29_PeersGrowOnlyInListenerDrain ==
    [][/\ ~onlyListener => peersWithoutRemotes' = {}
       /\ (last'.op = "service" /\ onlyListener) =>
             peersWithoutRemotes'
               = peersWithoutRemotes \cup (IF listener THEN Strangers ELSE {})
       /\ last'.op /= "service" => peersWithoutRemotes' \subseteq peersWithoutRemotes]_vars

\* a tick of a listener-only stack rejected the only frame it drained, from
\* a peer k2 it did not know before, and recorded the peer
C29_Witness ==
    /\ last.op = "service"
    /\ onlyListener
    /\ Len(last.drained) = 1
    /\ Len(last.rejected) = 1
    /\ last.drained[1].ident = "k2"
    /\ peersWithoutRemotes = {"k2"}

====
